---- MODULE Spec2Model ----
(***************************************************************************)
(* Model of the compress post-processor                                    *)
(* (post-processor/compress/post-processor.go): Configure, the filename    *)
(* classifier detectFromFilename, and PostProcess with its writer chain    *)
(* and deferred releases.                                                  *)
(*                                                                         *)
(* Strings that the classifier scans are sequences of pieces.  A piece is  *)
(* the dot ".", a run of characters of [a-z0-9] (a member of LowerPieces), *)
(* or a dot-free run that starts with a character outside [a-z0-9] (any    *)
(* other string).  Concatenating pieces gives the scanned string, so two   *)
(* adjacent lower pieces form one longer run, as they do for the regexp.   *)
(***************************************************************************)
EXTENDS Integers, Sequences, FiniteSets, TLC

VARIABLES pc, config, raws, nConfigured, files, events, defers, inner, idx, result, closeFailed

vars == <<pc, config, raws, nConfigured, files, events, defers, inner, idx, result, closeFailed>>

(* ------------------------------ bounds --------------------------------- *)

\* longest OutputPath, in pieces, that the classifier is run on
MaxPathLen == 5

\* configured compression levels range over -MaxNegLevel .. MaxLevel
MaxLevel == 10

MaxNegLevel == 3

\* most input files of the artifact
MaxFiles == 3

\* most calls of Configure on one PostProcessor
MaxConfigure == 2

(* --------------------------- program constants ------------------------- *)

\* pgzip.BestCompression
BestCompression == 9

\* pgzip.DefaultCompression
DefaultCompression == -1

Dot == "."

LowerPieces == {"tar", "zip", "gz", "lz4", "bgzf", "xz", "bzip2", "x", "packer"}

\* "packer_{{.BuildName}}_{{.BuilderType}}"
DefaultOutputPath == <<"packer", "_{{", ".", "BuildName}}_{{", ".", "BuilderType}}">>

(* ------------------------------ classifier ----------------------------- *)

\* filenamePattern = `(?:\.([a-z0-9]+))`, FindAllStringSubmatch(s, -1)
\* reduced to the captured group of every match, left to right.
\* mode: "none" (not after a dot), "dot" (right after a dot), "tok" (in a run).
RECURSIVE ScanFrom(_, _, _, _, _)
ScanFrom(s, i, mode, cur, acc) ==
    IF i > Len(s)
    THEN IF mode = "tok" THEN Append(acc, cur) ELSE acc
    ELSE LET p == s[i]
             closed == IF mode = "tok" THEN Append(acc, cur) ELSE acc
         IN IF p = Dot
            THEN ScanFrom(s, i + 1, "dot", "", closed)
            ELSE IF p \in LowerPieces
                 THEN IF mode = "none"
                      THEN ScanFrom(s, i + 1, "none", "", acc)
                      ELSE ScanFrom(s, i + 1, "tok", cur \o p, acc)
                 ELSE ScanFrom(s, i + 1, "none", "", closed)

FindAllStringSubmatch(s) == ScanFrom(s, 1, "none", "", <<>>)

\* mutant: "gz" is mapped to the name of its suffix
extensionsBySuffix ==
    [e \in {"tar", "zip", "gz", "lz4", "bgzf", "xz", "bzip2"} |-> e]

extensions ==
    [e \in {"tar", "zip", "gz", "lz4", "bgzf", "xz", "bzip2"} |->
        IF e = "gz" THEN "pgzip" ELSE e]

\* the string detectFromFilename scans
ScanString(c) ==
    IF c.Format = <<>> THEN c.OutputPath ELSE c.OutputPath \o <<Dot>> \o c.Format

\* mutant: a terminal "tar"/"zip" does not replace the archive that the
\* next-to-last item selected, and the final default leaves Archive alone
detectFromFilenameHintWins(c) ==
    LET res == FindAllStringSubmatch(ScanString(c))
    IN IF Len(res) = 0
       THEN [c EXCEPT !.Algorithm = "pgzip", !.Archive = "tar"]
       ELSE LET lastItem == res[Len(res)]
                nextToLastItem == IF Len(res) = 1 THEN "" ELSE res[Len(res) - 1]
                c1 == IF nextToLastItem = "tar" THEN [c EXCEPT !.Archive = "tar"] ELSE c
            IN IF lastItem = "zip" \/ lastItem = "tar"
               THEN IF c1.Archive = "" THEN [c1 EXCEPT !.Archive = lastItem] ELSE c1
               ELSE IF lastItem \in DOMAIN extensions
                    THEN [c1 EXCEPT !.Algorithm = extensions[lastItem]]
                    ELSE [c1 EXCEPT !.Algorithm = "pgzip", !.Archive = "tar"]

\* mutant: an unknown last item falls back to pgzip without an archive
detectFromFilenameNoTarDefault(c) ==
    LET res == FindAllStringSubmatch(ScanString(c))
    IN IF Len(res) = 0
       THEN [c EXCEPT !.Algorithm = "pgzip", !.Archive = "tar"]
       ELSE LET lastItem == res[Len(res)]
                nextToLastItem == IF Len(res) = 1 THEN "" ELSE res[Len(res) - 1]
                c1 == IF nextToLastItem = "tar" THEN [c EXCEPT !.Archive = "tar"] ELSE c
            IN IF lastItem = "zip" \/ lastItem = "tar"
               THEN [c1 EXCEPT !.Archive = lastItem]
               ELSE IF lastItem \in DOMAIN extensions
                    THEN [c1 EXCEPT !.Algorithm = extensions[lastItem]]
                    ELSE [c1 EXCEPT !.Algorithm = "pgzip"]

detectFromFilename(c) ==
    LET res == FindAllStringSubmatch(ScanString(c))
    IN IF Len(res) = 0
       THEN [c EXCEPT !.Algorithm = "pgzip", !.Archive = "tar"]
       ELSE LET lastItem == res[Len(res)]
                nextToLastItem == IF Len(res) = 1 THEN "" ELSE res[Len(res) - 1]
                c1 == IF nextToLastItem = "tar" THEN [c EXCEPT !.Archive = "tar"] ELSE c
            IN IF lastItem = "zip" \/ lastItem = "tar"
               THEN [c1 EXCEPT !.Archive = lastItem]
               ELSE IF lastItem \in DOMAIN extensions
                    THEN [c1 EXCEPT !.Algorithm = extensions[lastItem]]
                    ELSE [c1 EXCEPT !.Algorithm = "pgzip", !.Archive = "tar"]

(* ------------------------------ Configure ------------------------------ *)

\* the zero value of Config
ZeroConfig ==
    [OutputPath |-> <<>>, Format |-> <<>>, CompressionLevel |-> 0,
     Archive |-> "", Algorithm |-> ""]

\* mutant: a level above the maximum is not clamped
NormaliseLevelNoClamp(level) ==
    IF level = -1 \/ level = 0 THEN DefaultCompression ELSE level

\* Configure's handling of the compression level
NormaliseLevel(level) ==
    LET clamped == IF level > BestCompression THEN BestCompression ELSE level
    IN IF clamped = -1 \/ clamped = 0 THEN DefaultCompression ELSE clamped

\* Configure's default for an empty output
DefaultOutput(path) == IF path = <<>> THEN DefaultOutputPath ELSE path

Levels == (0 - MaxNegLevel) .. MaxLevel

\* output paths and formats given to a whole run
RunPaths ==
    { <<>>, <<"x", Dot, "tar">>, <<"x", Dot, "zip">>, <<"x", Dot, "lz4">> }

RunFormats == { <<>>, <<"gz">>, <<"bgzf">>, <<"xz">> }

Raws ==
    [output : RunPaths, format : RunFormats, level : Levels, valid : BOOLEAN]

\* config.Decode fills the fields from the raw configuration
Decode(c, r) ==
    [c EXCEPT !.OutputPath = r.output, !.Format = r.format,
              !.CompressionLevel = r.level]

ConfigureFields(c, r) ==
    LET d == Decode(c, r)
        n == [d EXCEPT !.OutputPath = DefaultOutput(d.OutputPath),
                       !.CompressionLevel = NormaliseLevel(d.CompressionLevel)]
    IN detectFromFilename(n)

Configure(r) ==
    /\ pc \in {"new", "configured", "rejected"}
    /\ nConfigured < MaxConfigure
    /\ raws' = r
    /\ nConfigured' = nConfigured + 1
    /\ config' = ConfigureFields(config, r)
    /\ pc' = IF r.valid THEN "configured" ELSE "rejected"
    /\ UNCHANGED <<files, events, defers, inner, idx, result, closeFailed>>

(* ------------------------------ PostProcess ---------------------------- *)

Ev(op, name, n) == [op |-> op, name |-> name, n |-> n]

NoResult == [artifact |-> FALSE, err |-> "", path |-> 0]

Sinks == {"archive", "compressor", "file"}

\* mutant: the deferred calls run in the order they were registered
RunDefersFifo(ds) == [i \in 1 .. Len(ds) |-> Ev("close", ds[i].name, ds[i].n)]

\* deferred calls of one function run last-in first-out when it returns
RunDefers(ds) == [i \in 1 .. Len(ds) |-> Ev("close", ds[Len(ds) + 1 - i].name, ds[Len(ds) + 1 - i].n)]

Deferred(name, n) == [name |-> name, n |-> n]

DeferredSinks(ds) == { ds[i].name : i \in 1 .. Len(ds) } \cap Sinks

\* a return of PostProcess: the callee's deferred calls have run (inn), then
\* PostProcess's own (out); the error of a Close is discarded.
Return(evs, inn, out, err, path) ==
    /\ events' = evs \o RunDefers(inn) \o RunDefers(out)
    /\ \E failed \in SUBSET (DeferredSinks(inn) \cup DeferredSinks(out)) :
          closeFailed' = failed
    /\ result' = [artifact |-> err = "", err |-> err, path |-> path]
    /\ defers' = <<>>
    /\ inner' = <<>>
    /\ pc' = "done"

\* interpolate.Render, os.MkdirAll, os.Create, defer outputFile.Close()
OpenOutput(n, outcome) ==
    /\ pc = "configured"
    /\ files' = n
    /\ UNCHANGED <<config, raws, nConfigured, idx>>
    /\ IF outcome = "render"
       THEN Return(events, <<>>, <<>>, "Error interpolating output value", 0)
       ELSE IF outcome = "mkdir"
       THEN Return(events, <<>>, <<>>, "Unable to create dir for archive", 0)
       ELSE IF outcome = "create"
       THEN Return(Append(events, Ev("mkdir", "dir", 0)), <<>>, <<>>,
                   "Unable to create archive", 0)
       ELSE /\ events' = events \o <<Ev("mkdir", "dir", 0), Ev("create", "file", 0)>>
            /\ defers' = <<Deferred("file", 0)>>
            /\ pc' = "created"
            /\ UNCHANGED <<inner, result, closeFailed>>

\* pgzip.NewWriterLevel and bgzf.NewWriterLevel reject a level outside the
\* range of their codec
CodecAccepts(alg, level) ==
    IF alg = "pgzip" THEN level >= -2 /\ level <= BestCompression
    ELSE level >= DefaultCompression /\ level <= BestCompression

\* the level a constructor hands to its library
HandedLevel(alg, level) ==
    IF alg = "bzip2" THEN (IF level > 0 THEN level ELSE 9)
    ELSE IF alg = "xz" THEN 0
    ELSE IF alg = "lz4" THEN (IF level > 0 THEN level ELSE 0)
    ELSE level

\* the switch on p.config.Algorithm
MakeWriter(libok) ==
    /\ pc = "created"
    /\ UNCHANGED <<config, raws, nConfigured, files, idx>>
    /\ LET alg == config.Algorithm
           level == HandedLevel(alg, config.CompressionLevel)
       IN IF alg = ""
          THEN /\ libok
               /\ pc' = "wrapped"
               /\ UNCHANGED <<events, defers, inner, result, closeFailed>>
          ELSE IF alg \in {"pgzip", "bgzf"}
          THEN /\ libok
               /\ IF CodecAccepts(alg, level)
                  THEN /\ events' = Append(events, Ev("new", alg, level))
                       /\ defers' = Append(defers, Deferred("compressor", 0))
                       /\ pc' = "wrapped"
                       /\ UNCHANGED <<inner, result, closeFailed>>
                  ELSE Return(Append(events, Ev("reject", alg, level)), <<>>, defers,
                              "ErrInvalidCompressionLevel", 0)
          ELSE IF libok \/ alg = "lz4"
          THEN /\ libok
               /\ events' = Append(events, Ev("new", alg, level))
               /\ defers' = Append(defers, Deferred("compressor", 0))
               /\ pc' = "wrapped"
               /\ UNCHANGED <<inner, result, closeFailed>>
          ELSE Return(Append(events, Ev("reject", alg, level)), <<>>, defers,
                      "error creating writer", 0)

\* tar.NewWriter / zip.NewWriter and defer archive.Close()
ArchiveBegin ==
    /\ pc = "wrapped"
    /\ config.Archive \in {"tar", "zip"}
    /\ events' = Append(events, Ev("new", config.Archive, 0))
    /\ inner' = <<Deferred("archive", 0)>>
    /\ idx' = 1
    /\ pc' = "archiving"
    /\ UNCHANGED <<config, raws, nConfigured, files, defers, result, closeFailed>>

TarOutcomes == {"ok", "open", "stat", "header", "writeheader", "copy"}

ZipOutcomes == {"ok", "open", "create", "copy"}

\* mutant: a file that cannot be opened is skipped and the loop goes on
TarOpenFailureSkipped ==
    /\ events' = Append(events, Ev("fail", "open", idx))
    /\ idx' = idx + 1
    /\ UNCHANGED <<pc, defers, inner, result, closeFailed>>

\* os.Open(path) failed in createTarArchive: it returns the error, and
\* PostProcess returns it in turn
TarOpenFailure ==
    /\ Return(Append(events, Ev("fail", "open", idx)), inner, defers,
              "Unable to read file", idx)
    /\ UNCHANGED idx

\* one iteration of the loop of createTarArchive
TarFile(outcome) ==
    /\ pc = "archiving"
    /\ config.Archive = "tar"
    /\ idx <= files
    /\ UNCHANGED <<config, raws, nConfigured, files>>
    /\ IF outcome = "open"
       THEN TarOpenFailure
       ELSE LET opened == Append(inner, Deferred("input", idx))
            IN IF outcome = "stat"
               THEN /\ Return(Append(events, Ev("fail", "stat", idx)), opened, defers,
                              "Unable to get fileinfo", idx)
                    /\ UNCHANGED idx
               ELSE IF outcome = "header"
               THEN /\ Return(Append(events, Ev("fail", "header", idx)), opened, defers,
                              "Failed to create tar header", idx)
                    /\ UNCHANGED idx
               ELSE IF outcome = "writeheader"
               THEN /\ Return(Append(events, Ev("fail", "writeheader", idx)), opened, defers,
                              "Failed to write tar header", idx)
                    /\ UNCHANGED idx
               ELSE IF outcome = "copy"
               THEN /\ Return(events \o <<Ev("hdr", "tar", idx), Ev("fail", "copy", idx)>>,
                              opened, defers, "Failed to copy data to archive", idx)
                    /\ UNCHANGED idx
               ELSE /\ events' = events \o <<Ev("hdr", "tar", idx), Ev("body", "tar", idx)>>
                    /\ inner' = opened
                    /\ idx' = idx + 1
                    /\ UNCHANGED <<pc, defers, result, closeFailed>>

\* one iteration of the loop of createZipArchive
ZipFile(outcome) ==
    /\ pc = "archiving"
    /\ config.Archive = "zip"
    /\ idx <= files
    /\ UNCHANGED <<config, raws, nConfigured, files>>
    /\ IF outcome = "open"
       THEN /\ Return(Append(events, Ev("fail", "open", idx)), inner, defers,
                      "Unable to read file", idx)
            /\ UNCHANGED idx
       ELSE LET opened == Append(inner, Deferred("input", idx))
            IN IF outcome = "create"
               THEN /\ Return(Append(events, Ev("fail", "create", idx)), opened, defers,
                              "Failed to add zip header", idx)
                    /\ UNCHANGED idx
               ELSE IF outcome = "copy"
               THEN /\ Return(events \o <<Ev("hdr", "zip", idx), Ev("fail", "copy", idx)>>,
                              opened, defers, "Failed to copy data to archive", idx)
                    /\ UNCHANGED idx
               ELSE /\ events' = events \o <<Ev("hdr", "zip", idx), Ev("body", "zip", idx)>>
                    /\ inner' = opened
                    /\ idx' = idx + 1
                    /\ UNCHANGED <<pc, defers, result, closeFailed>>

\* the loop is over: the archive function returns nil and PostProcess
\* returns the artifact
ArchiveEnd ==
    /\ pc = "archiving"
    /\ idx > files
    /\ Return(events, inner, defers, "", 0)
    /\ UNCHANGED <<config, raws, nConfigured, files, idx>>

\* the default branch of the switch on p.config.Archive
NoArchive(outcome) ==
    /\ pc = "wrapped"
    /\ config.Archive \notin {"tar", "zip"}
    /\ UNCHANGED <<config, raws, nConfigured, files, idx>>
    /\ IF files # 1
       THEN /\ outcome = "ok"
            /\ Return(events, <<>>, defers, "ErrWrongInputCount", 0)
       ELSE IF outcome = "open"
       THEN Return(Append(events, Ev("fail", "open", 1)), <<>>, defers,
                   "Failed to open source file", 1)
       ELSE IF outcome = "copy"
       THEN Return(Append(events, Ev("fail", "copy", 1)), <<>>,
                   Append(defers, Deferred("source", 1)), "Failed to compress", 1)
       ELSE Return(Append(events, Ev("body", "raw", 1)), <<>>,
                   Append(defers, Deferred("source", 1)), "", 0)

(* ---------------------------- specification ---------------------------- *)

Init ==
    /\ pc = "new"
    /\ config = ZeroConfig
    /\ raws = [output |-> <<>>, format |-> <<>>, level |-> 0, valid |-> TRUE]
    /\ nConfigured = 0
    /\ files = 0
    /\ events = <<>>
    /\ defers = <<>>
    /\ inner = <<>>
    /\ idx = 0
    /\ result = NoResult
    /\ closeFailed = {}

Next ==
    \/ \E r \in Raws : Configure(r)
    \/ \E n \in 0 .. MaxFiles, o \in {"ok", "render", "mkdir", "create"} : OpenOutput(n, o)
    \/ \E ok \in BOOLEAN : MakeWriter(ok)
    \/ ArchiveBegin
    \/ \E o \in TarOutcomes : TarFile(o)
    \/ \E o \in ZipOutcomes : ZipFile(o)
    \/ ArchiveEnd
    \/ \E o \in {"ok", "open", "copy"} : NoArchive(o)

Spec == Init /\ [][Next]_vars

(* ---------------------- specification of the classifier ---------------- *)

\* pieces of the output paths the classifier is run on
ClassifyPieces == {Dot, "tar", "zip", "gz", "x", "B"}

ClassifyPaths ==
    UNION { [1 .. n -> ClassifyPieces] : n \in 1 .. MaxPathLen } \cup {DefaultOutputPath}

ClassifyFormats ==
    { <<>>, <<"tar">>, <<"zip">>, <<"gz">>, <<"lz4">>, <<"bgzf">>, <<"xz">>,
      <<"bzip2">>, <<"B">> }

\* Configure has decoded the configuration into a new PostProcessor and is
\* about to call detectFromFilename
InitClassify ==
    /\ pc = "decoded"
    /\ \E p \in ClassifyPaths, f \in ClassifyFormats :
          config = [ZeroConfig EXCEPT !.OutputPath = p, !.Format = f,
                                      !.CompressionLevel = DefaultCompression]
    /\ raws = [output |-> <<>>, format |-> <<>>, level |-> 0, valid |-> TRUE]
    /\ nConfigured = 0
    /\ files = 0
    /\ events = <<>>
    /\ defers = <<>>
    /\ inner = <<>>
    /\ idx = 0
    /\ result = NoResult
    /\ closeFailed = {}

\* p.config.detectFromFilename()
DetectStep ==
    /\ pc = "decoded"
    /\ config' = detectFromFilename(config)
    /\ pc' = "classified"
    /\ UNCHANGED <<raws, nConfigured, files, events, defers, inner, idx, result, closeFailed>>

NextClassify == DetectStep

SpecClassify == InitClassify /\ [][NextClassify]_vars

(* -------------------------------- claims ------------------------------- *)

\* the dot-delimited tokens of the string the classifier scanned
Tokens == FindAllStringSubmatch(ScanString(config))

LastToken == IF Len(Tokens) = 0 THEN "" ELSE Tokens[Len(Tokens)]

Penultimate == IF Len(Tokens) < 2 THEN "" ELSE Tokens[Len(Tokens) - 1]

CompressionSuffixes == {"gz", "lz4", "bgzf", "xz", "bzip2"}

\* C1: classifying a Config whose derived fields are unset, a last token
\* "tar" or "zip" gives Archive = that token and no Algorithm, whatever the
\* penultimate token is.
TerminalArchiveWins ==
    (pc = "classified" /\ LastToken \in {"tar", "zip"})
        => (config.Archive = LastToken /\ config.Algorithm = "")

TerminalArchiveWinsWitness ==
    /\ pc = "classified"
    /\ Tokens = <<"tar", "zip">>
    /\ config.Archive = "zip"
    /\ config.Algorithm = ""

\* C2: a scan string with no token, or whose last token is none of the seven
\* known suffixes, is classified (tar, pgzip).
ClassifierFallback ==
    (pc = "classified"
        /\ (Len(Tokens) = 0 \/ LastToken \notin ({"tar", "zip"} \cup CompressionSuffixes)))
        => (config.Archive = "tar" /\ config.Algorithm = "pgzip")

ClassifierFallbackWitness ==
    /\ pc = "classified"
    /\ Tokens = <<"gz", "x">>
    /\ config.Archive = "tar"
    /\ config.Algorithm = "pgzip"

\* C3: classifying a Config whose derived fields are unset, a last token among
\* gz, lz4, bgzf, xz, bzip2 gives the Algorithm of the table, and Archive is
\* tar exactly when the penultimate token is "tar", otherwise unset.
CompressionSuffixTable ==
    (pc = "classified" /\ LastToken \in CompressionSuffixes)
        => /\ config.Algorithm = (IF LastToken = "gz" THEN "pgzip" ELSE LastToken)
           /\ config.Archive = (IF Penultimate = "tar" THEN "tar" ELSE "")

CompressionSuffixTableWitness ==
    /\ pc = "classified"
    /\ Tokens = <<"tar", "gz">>
    /\ config.Archive = "tar"
    /\ config.Algorithm = "pgzip"

IsSinkOpen(e) == e.op = "create" \/ e.op = "new"

IsSinkClose(e) == e.op = "close" /\ e.name \in Sinks

SinkOf(e) ==
    IF e.op = "close" THEN e.name
    ELSE IF e.op = "create" THEN "file"
    ELSE IF e.name \in {"tar", "zip"} THEN "archive"
    ELSE "compressor"

SinkNames(s) == [i \in 1 .. Len(s) |-> SinkOf(s[i])]

Opened == SinkNames(SelectSeq(events, IsSinkOpen))

Closed == SinkNames(SelectSeq(events, IsSinkClose))

\* C4: PostProcess returns the Artifact only when every sink was released
\* without error; a failing Close makes the run fail.
ArtifactOnlyAfterCleanRelease ==
    pc = "done" => /\ (result.artifact => closeFailed = {})
                   /\ (closeFailed # {} => result.err # "")

\* C5: on every return of PostProcess after the output file was created, the
\* sinks are closed in the reverse of the order they were constructed: each
\* one once, the archive writer before the compressor, the output file last.
ReleaseInReverseOrder ==
    (pc = "done" /\ Ev("create", "file", 0) \in {events[i] : i \in DOMAIN events})
        => /\ Closed = [i \in 1 .. Len(Opened) |-> Opened[Len(Opened) + 1 - i]]
           /\ events[Len(events)] = Ev("close", "file", 0)

ReleaseInReverseOrderWitness ==
    /\ pc = "done"
    /\ result.err = "Unable to read file"
    /\ Opened = <<"file", "compressor", "archive">>
    /\ Closed = <<"archive", "compressor", "file">>

\* C6: the wrong-input-count error is returned before any sink is opened: no
\* output file was created and no compressor was constructed.
WrongCountBeforeSinks ==
    (pc = "done" /\ result.err = "ErrWrongInputCount") => Opened = <<>>

\* C7: an invalid compression level is reported before any I/O: neither the
\* output directory nor the output file was created.
InvalidLevelBeforeIO ==
    (pc = "done" /\ result.err = "ErrInvalidCompressionLevel")
        => \A i \in DOMAIN events : events[i].op \notin {"mkdir", "create"}

\* C8: the level handed to the pgzip writer is 9 for a configured level above
\* 9, -1 for a configured 0 or -1, and the configured level from 1 to 9; a
\* level above 9 is never rejected.
PgzipLevelNormalised ==
    \A i \in DOMAIN events :
        (events[i].name = "pgzip" /\ events[i].op \in {"new", "reject"})
            => /\ (raws.level > 9 => (events[i].n = 9 /\ events[i].op = "new"))
               /\ (raws.level \in {0, -1} => events[i].n = -1)
               /\ (raws.level \in 1 .. 9 => events[i].n = raws.level)
               /\ (raws.level > 9 => result.err # "ErrInvalidCompressionLevel")

PgzipLevelNormalisedWitness ==
    /\ raws.level > 9
    /\ Ev("new", "pgzip", 9) \in {events[i] : i \in DOMAIN events}

IsTarEntry(e) == e.name = "tar" /\ e.op \in {"hdr", "body"}

TarEntries == SelectSeq(events, IsTarEntry)

\* the entries of inputs 1 .. k, each header right before its body
EntriesUpTo(k) ==
    [j \in 1 .. 2 * k |->
        IF j % 2 = 1 THEN Ev("hdr", "tar", (j + 1) \div 2) ELSE Ev("body", "tar", j \div 2)]

\* C9: tar entries are written in the order of the inputs, each header
\* immediately before its body; when opening input k fails the run is over
\* with exactly the entries of inputs 1 .. k-1 and an error naming input k.
TarOpenFailureAborts ==
    config.Archive = "tar" =>
        /\ \A j \in 1 .. Len(TarEntries) : TarEntries[j] = EntriesUpTo(MaxFiles + 1)[j]
        /\ \A i \in DOMAIN events :
              events[i] \in {Ev("body", "tar", k) : k \in 1 .. MaxFiles + 1}
                  => (i > 1 /\ events[i - 1] = Ev("hdr", "tar", events[i].n))
        /\ \A i \in DOMAIN events :
              (events[i].op = "fail" /\ events[i].name = "open")
                  => /\ pc = "done"
                     /\ TarEntries = EntriesUpTo(events[i].n - 1)
                     /\ ~result.artifact
                     /\ result.err = "Unable to read file"
                     /\ result.path = events[i].n

TarOpenFailureAbortsWitness ==
    /\ config.Archive = "tar"
    /\ files = 3
    /\ pc = "done"
    /\ Ev("fail", "open", 2) \in {events[i] : i \in DOMAIN events}
    /\ TarEntries = <<Ev("hdr", "tar", 1), Ev("body", "tar", 1)>>
    /\ result.path = 2

\* C10: the classification is a function of (OutputPath, Format) alone: it is
\* what classifying these on a Config with unset derived fields gives.
ClassifierPure ==
    nConfigured > 0 =>
        LET fresh == detectFromFilename([config EXCEPT !.Archive = "", !.Algorithm = ""])
        IN config.Archive = fresh.Archive /\ config.Algorithm = fresh.Algorithm

====
